---- MODULE Spec2Model ----
(***************************************************************************)
(* Order creation and stock handling of the inventory backend.             *)
(*                                                                         *)
(* The store is PostgreSQL under READ COMMITTED: a statement sees only     *)
(* committed rows, SELECT ... FOR UPDATE and UPDATE take the row lock and  *)
(* wait while another transaction holds it, a transaction's writes become  *)
(* visible at COMMIT and vanish at ROLLBACK.  Each worker below is one     *)
(* request handler running PedidoServicio.crear_pedido; every step is one  *)
(* statement (or one autocommitted DAO call) of that handler.  Next to     *)
(* them run the stock-adjust endpoint, the handler of one MQTT message     *)
(* with a batch of sensor readings, the status change of an order, and the *)
(* updates of a product and of a user's role.                              *)
(*                                                                         *)
(* Money is counted in the smallest unit of the price column.  A Python    *)
(* float is identified with the decimal that str() prints for it, which is *)
(* the value Decimal(str(x)) reads back; on prices with a fixed number of  *)
(* decimals float() and Decimal(str()) are exact, so the unit price that   *)
(* reaches the DAO is the number the service put there.                    *)
(***************************************************************************)
EXTENDS Integers, Sequences, FiniteSets, TLC

\* ---------------------------------------------------------------- bounds
MaxItems == 2       \* lines per order payload
MaxCantidad == 2    \* largest quantity a line asks for
MaxAjustes == 2     \* calls of ProductoServicio.ajustar_stock in one run
MaxLecturas == 2    \* readings in one sensor batch

\* ------------------------------------------------------- program constants
\* elif producto.cantidad <= 10: the low-stock threshold
UmbralBajo == 10

\* Python's None (ids and prices are never negative)
None == 0 - 1

VARIABLES
    productos,    \* table productos: id -> [cantidad, precio], committed rows
    usuarios,     \* table usuarios: id -> [rol]
    pedidos,      \* table pedidos: committed rows [id, usuario_id, estado, total]
    detalles,     \* table detalle_pedidos: committed rows
    seqPedido,    \* the SERIAL sequence of pedidos.id
    bloqueo,      \* row lock of each productos row: the worker holding it, or 0
    pc,           \* where each worker stands in crear_pedido
    pedido,       \* the Pedido object each worker is handling
    idx,          \* the loop index (1-based) of the worker's current loop
    tx,           \* the worker's open transaction: uncommitted writes and total
    resultado,    \* what crear_pedido returned or raised
    entrada,      \* history: the payload the call was made with
    antes,        \* history: the committed tables when the call was made
    interferido,  \* history: another writer has committed since the call was made
    nAjustes,     \* calls of ajustar_stock so far
    ajuste,       \* the last call of ajustar_stock and what it returned or raised
    notificaciones, \* table notificaciones: committed rows
    sensor,       \* the handler of one MQTT message: its batch and where it stands
    cambio        \* the last call of cambiar_estado and what it returned or raised

dbVars == <<productos, usuarios, pedidos, detalles, seqPedido, bloqueo>>
wkVars == <<pc, pedido, idx, tx, resultado>>
vars == <<productos, usuarios, pedidos, detalles, seqPedido, bloqueo,
          pc, pedido, idx, tx, resultado, entrada, antes, interferido, nAjustes,
          ajuste, notificaciones, sensor, cambio>>
histVars == <<entrada, antes, interferido>>
\* What an order request leaves alone: the sensor path and the status change.
extVars == <<notificaciones, sensor, cambio>>

Workers == DOMAIN pc

\* ------------------------------------------------------------- messages
\* The ValueError messages of PedidoServicio and PedidoDAO, by kind.
ErrSinItems == "El pedido debe contener al menos un item"
ErrSinUsuario == "El pedido debe incluir usuario_id"
ErrUsuarioNoExiste == "Usuario no existe"
ErrCantidad == "La cantidad debe ser positiva"
ErrProductoNoExiste == "Producto no existe"
ErrStock == "Stock insuficiente"
\* psycopg2's DeadlockDetected, which is no ValueError
ErrDeadlock == "deadlock detected"
Ok == "ok"
EnCurso == ""

ValueErrors == {ErrSinItems, ErrSinUsuario, ErrUsuarioNoExiste, ErrCantidad,
                ErrProductoNoExiste, ErrStock}

\* The status the POST /pedidos endpoint answers with.
HttpStatus(res) ==
    IF res = Ok THEN 201
    ELSE IF res \in ValueErrors THEN 400
    ELSE 500

\* ------------------------------------------------------------- helpers
RECURSIVE SumSeq(_)
SumSeq(s) == IF s = << >> THEN 0 ELSE Head(s) + SumSeq(Tail(s))

\* Pedido.calcular_total: the float sum of precio_unitario * cantidad, a
\* missing price counting 0.0
calcular_total(items) ==
    SumSeq([k \in 1..Len(items) |->
        (IF items[k].precio_unitario # None THEN items[k].precio_unitario ELSE 0)
            * items[k].cantidad])

\* Variant: the subtotal forgets the quantity.
SubtotalSinCantidad(it) == it.precio_unitario

\* subtotal = Decimal(str(it.precio_unitario)) * Decimal(it.cantidad)
Subtotal(it) == it.precio_unitario * it.cantidad

\* The committed tables, as one value.
Tablas == [productos |-> productos, pedidos |-> pedidos, detalles |-> detalles]

TxVacia == [total |-> 0, pedido_id |-> None, detalles |-> {},
            delta |-> [p \in {} |-> 0]]

\* Rows of productos locked by worker c.
Libera(c) == [p \in DOMAIN bloqueo |-> IF bloqueo[p] = c THEN 0 ELSE bloqueo[p]]

\* Another writer committed: every other call in progress or returned is marked.
Marca(c) == [d \in DOMAIN interferido |->
                IF d # c /\ pc[d] # "idle" THEN TRUE ELSE interferido[d]]

\* ------------------------------------------------------------- inputs
\* Unit prices a caller sends with a line.
PreciosDados == {7}

\* One order line of a typed Pedido: the caller may give precio_unitario.
Lineas(ids) ==
    [producto_id : ids, cantidad : 0..MaxCantidad, precio_unitario : {None} \cup PreciosDados]

\* One order line of a dict payload: crear_pedido reads producto_id and cantidad.
LineasDict(ids) ==
    [producto_id : ids, cantidad : 0..MaxCantidad, precio_unitario : {None}]

SeqHasta(S, n) == UNION {[1..k -> S] : k \in 0..n}

\* The payloads of POST /pedidos: a typed Pedido or a dict.
Entradas(ids, uids) ==
    [forma : {"Pedido"}, usuario_id : uids, estado : {"pendiente"},
     items : SeqHasta(Lineas(ids), MaxItems)]
    \cup
    [forma : {"dict"}, usuario_id : uids, estado : {"pendiente"},
     items : SeqHasta(LineasDict(ids), MaxItems)]

\* ---------------------------------------------------- PedidoServicio
\* The worker stops: crear_pedido returns or raises res.
Termina(c, res) ==
    /\ pc' = [pc EXCEPT ![c] = "done"]
    /\ resultado' = [resultado EXCEPT ![c] = res]

\* Variant: the dict branch does not test for an empty item list.
ErrorEntradaSinVacio(data) ==
    IF data.usuario_id = None THEN ErrSinUsuario ELSE EnCurso

\* What crear_pedido raises before it reads the store: a dict payload
\* without items, then a Pedido without usuario_id.
ErrorEntrada(data) ==
    IF data.forma = "dict" /\ data.items = << >> THEN ErrSinItems
    ELSE IF data.usuario_id = None THEN ErrSinUsuario
    ELSE EnCurso

\* crear_pedido, up to the first read of the store: the payload becomes a
\* Pedido (a dict's lines keep producto_id and cantidad only); its estado is
\* the payload's, "pendiente" when the payload gives none.
crear_pedido(c, E) ==
    /\ pc[c] = "idle"
    /\ \E data \in E :
        LET items == IF data.forma = "dict"
                     THEN [k \in 1..Len(data.items) |->
                            [producto_id |-> data.items[k].producto_id,
                             cantidad |-> data.items[k].cantidad,
                             precio_unitario |-> None]]
                     ELSE data.items
            err == ErrorEntrada(data)
        IN  /\ pedido' = [pedido EXCEPT ![c] =
                    [id |-> None, usuario_id |-> data.usuario_id,
                     estado |-> data.estado, items |-> items, total |-> None]]
            /\ IF err = EnCurso
               THEN /\ pc' = [pc EXCEPT ![c] = "validar_usuario"]
                    /\ UNCHANGED resultado
               ELSE Termina(c, err)
            /\ entrada' = [entrada EXCEPT ![c] = data]
    /\ antes' = [antes EXCEPT ![c] = Tablas]
    /\ interferido' = [interferido EXCEPT ![c] = FALSE]
    /\ UNCHANGED <<dbVars, idx, tx, nAjustes, ajuste, extVars>>

\* Variant: the user is not looked up.
ErrorUsuarioSinConsulta(ped, tabla) ==
    IF ped.items = << >> THEN ErrSinItems ELSE EnCurso

\* What _validar_usuario raises against the usuarios table, and after it
\* the emptiness test of _validar_items_y_enriquecer.
ErrorUsuario(ped, tabla) ==
    IF ped.usuario_id \notin DOMAIN tabla THEN ErrUsuarioNoExiste
    ELSE IF ped.items = << >> THEN ErrSinItems
    ELSE EnCurso

\* _validar_usuario, then the emptiness test that opens
\* _validar_items_y_enriquecer.
validar_usuario(c) ==
    /\ pc[c] = "validar_usuario"
    /\ LET err == ErrorUsuario(pedido[c], usuarios)
       IN  IF err = EnCurso
           THEN /\ pc' = [pc EXCEPT ![c] = "validar_items"]
                /\ idx' = [idx EXCEPT ![c] = 1]
                /\ UNCHANGED resultado
           ELSE /\ Termina(c, err)
                /\ UNCHANGED idx
    /\ UNCHANGED <<dbVars, pedido, tx, histVars, nAjustes, ajuste, extVars>>

\* Variant: a product that is not found counts as a product without stock.
ErrorItemServicioSinFila(it, tabla) ==
    IF it.cantidad <= 0 THEN ErrCantidad
    ELSE IF (IF it.producto_id \in DOMAIN tabla
             THEN tabla[it.producto_id].cantidad ELSE 0) < it.cantidad THEN ErrStock
    ELSE IF it.producto_id \notin DOMAIN tabla THEN ErrProductoNoExiste
    ELSE EnCurso

\* Variant: a stock shortage is raised with the message of the quantity check.
ErrorItemServicioMensaje(it, tabla) ==
    IF it.cantidad <= 0 THEN ErrCantidad
    ELSE IF it.producto_id \notin DOMAIN tabla THEN ErrProductoNoExiste
    ELSE IF tabla[it.producto_id].cantidad < it.cantidad THEN ErrCantidad
    ELSE EnCurso

\* Variant: the quantity check lets 0 through.
ErrorItemServicioCero(it, tabla) ==
    IF it.cantidad < 0 THEN ErrCantidad
    ELSE IF it.producto_id \notin DOMAIN tabla THEN ErrProductoNoExiste
    ELSE IF tabla[it.producto_id].cantidad < it.cantidad THEN ErrStock
    ELSE EnCurso

\* The check _validar_items_y_enriquecer makes of one line, against the
\* committed row that ProductoDAO.get_by_id reads.
ErrorItemServicio(it, tabla) ==
    IF it.cantidad <= 0 THEN ErrCantidad
    ELSE IF it.producto_id \notin DOMAIN tabla THEN ErrProductoNoExiste
    ELSE IF tabla[it.producto_id].cantidad < it.cantidad THEN ErrStock
    ELSE EnCurso

\* Variant: the missing unit price is filled with zero.
ConPrecioCero(it, precio) ==
    IF it.precio_unitario = None
    THEN [it EXCEPT !.precio_unitario = 0]
    ELSE it

\* Variant: the product's price always replaces the unit price.
ConPrecioSiempre(it, precio) == [it EXCEPT !.precio_unitario = precio]

\* it.precio_unitario = float(precio) when the line has none
ConPrecio(it, precio) ==
    IF it.precio_unitario = None
    THEN [it EXCEPT !.precio_unitario = precio]
    ELSE it

\* One turn of the loop of _validar_items_y_enriquecer; after the last line
\* the total is recalculated and PedidoDAO.create opens its transaction.
validar_item(c) ==
    /\ pc[c] = "validar_items"
    /\ LET it == pedido[c].items[idx[c]]
           err == ErrorItemServicio(it, productos)
       IN  IF err # EnCurso
           THEN /\ Termina(c, err)
                /\ UNCHANGED <<pedido, idx, tx>>
           ELSE LET items == [pedido[c].items EXCEPT ![idx[c]] =
                                ConPrecio(it, productos[it.producto_id].precio)]
                IN  /\ UNCHANGED resultado
                    /\ IF idx[c] < Len(items)
                       THEN /\ pedido' = [pedido EXCEPT ![c].items = items]
                            /\ idx' = [idx EXCEPT ![c] = idx[c] + 1]
                            /\ UNCHANGED <<pc, tx>>
                       ELSE /\ pedido' = [pedido EXCEPT ![c].items = items,
                                            ![c].total = calcular_total(items)]
                            /\ idx' = [idx EXCEPT ![c] = 1]
                            /\ pc' = [pc EXCEPT ![c] = "create_select"]
                            /\ tx' = [tx EXCEPT ![c] = TxVacia]
    /\ UNCHANGED <<dbVars, histVars, nAjustes, ajuste, extVars>>

\* ---------------------------------------------------------- PedidoDAO
\* The check the first loop of PedidoDAO.create makes of one line, against
\* the row its SELECT ... FOR UPDATE returned.
ErrorItemDAO(it, tabla) ==
    IF it.producto_id \notin DOMAIN tabla THEN ErrProductoNoExiste
    ELSE IF it.cantidad <= 0 THEN ErrCantidad
    ELSE IF tabla[it.producto_id].cantidad < it.cantidad THEN ErrStock
    ELSE EnCurso

\* except Exception: conn.rollback(); raise
Rollback(c, err) ==
    /\ Termina(c, err)
    /\ bloqueo' = Libera(c)
    /\ tx' = [tx EXCEPT ![c] = TxVacia]

\* One turn of the first loop of PedidoDAO.create: lock the row, check the
\* line, add its subtotal.  The statement waits while another transaction
\* holds the row.
create_select(c) ==
    /\ pc[c] = "create_select"
    /\ LET it == pedido[c].items[idx[c]]
           p == it.producto_id
           err == ErrorItemDAO(it, productos)
       IN  /\ p \in DOMAIN productos => bloqueo[p] \in {0, c}
           /\ IF err # EnCurso
              THEN /\ Rollback(c, err)
                   /\ UNCHANGED <<pedido, idx>>
              ELSE LET lleno == ConPrecio(it, productos[p].precio)
                   IN  /\ bloqueo' = [bloqueo EXCEPT ![p] = c]
                       /\ pedido' = [pedido EXCEPT ![c].items[idx[c]] = lleno]
                       /\ tx' = [tx EXCEPT ![c].total = @ + Subtotal(lleno)]
                       /\ UNCHANGED resultado
                       /\ IF idx[c] < Len(pedido[c].items)
                          THEN /\ idx' = [idx EXCEPT ![c] = idx[c] + 1]
                               /\ UNCHANGED pc
                          ELSE /\ idx' = [idx EXCEPT ![c] = 1]
                               /\ pc' = [pc EXCEPT ![c] = "create_insert_pedido"]
    /\ UNCHANGED <<productos, usuarios, pedidos, detalles, seqPedido,
                   histVars, nAjustes, ajuste, extVars>>

\* INSERT INTO pedidos ... RETURNING id, inside the transaction.
create_insert_pedido(c) ==
    /\ pc[c] = "create_insert_pedido"
    /\ seqPedido' = seqPedido + 1
    /\ tx' = [tx EXCEPT ![c].pedido_id = seqPedido + 1]
    /\ pedido' = [pedido EXCEPT ![c].id = seqPedido + 1]
    /\ pc' = [pc EXCEPT ![c] = "create_insert_detalle"]
    /\ idx' = [idx EXCEPT ![c] = 1]
    /\ UNCHANGED <<productos, usuarios, pedidos, detalles, bloqueo, resultado,
                   histVars, nAjustes, ajuste, extVars>>

\* The row INSERT INTO detalle_pedidos writes for line k of the order.
FilaDetalle(pedido_id, k, it) ==
    [pedido_id |-> pedido_id, linea |-> k, producto_id |-> it.producto_id,
     cantidad |-> it.cantidad, precio_unitario |-> it.precio_unitario,
     subtotal |-> Subtotal(it)]

\* UPDATE productos SET cantidad = cantidad - q, as a pending change of the
\* open transaction.
Resta(delta, p, q) ==
    [x \in DOMAIN delta \cup {p} |->
        (IF x \in DOMAIN delta THEN delta[x] ELSE 0) + (IF x = p THEN q ELSE 0)]

\* One turn of the second loop of PedidoDAO.create: insert the line and
\* take its quantity off the product, inside the transaction.
create_insert_detalle(c) ==
    /\ pc[c] = "create_insert_detalle"
    /\ LET it == pedido[c].items[idx[c]]
       IN  /\ tx' = [tx EXCEPT
                ![c].detalles = @ \cup {FilaDetalle(tx[c].pedido_id, idx[c], it)},
                ![c].delta = Resta(@, it.producto_id, it.cantidad)]
           /\ IF idx[c] < Len(pedido[c].items)
              THEN /\ idx' = [idx EXCEPT ![c] = idx[c] + 1]
                   /\ UNCHANGED pc
              ELSE /\ idx' = [idx EXCEPT ![c] = 1]
                   /\ pc' = [pc EXCEPT ![c] = "create_commit"]
    /\ UNCHANGED <<dbVars, pedido, resultado, histVars, nAjustes, ajuste, extVars>>

\* The productos table after a transaction's pending changes are applied.
Aplica(tabla, delta) ==
    [p \in DOMAIN tabla |->
        IF p \in DOMAIN delta
        THEN [tabla[p] EXCEPT !.cantidad = @ - delta[p]]
        ELSE tabla[p]]

\* UPDATE pedidos SET total; conn.commit(); pedido.total = float(total).
\* The header, the lines and the stock changes become visible together and
\* the row locks are released.
create_commit(c) ==
    /\ pc[c] = "create_commit"
    /\ pedidos' = pedidos \cup
            {[id |-> tx[c].pedido_id, usuario_id |-> pedido[c].usuario_id,
              estado |-> pedido[c].estado, total |-> tx[c].total]}
    /\ detalles' = detalles \cup tx[c].detalles
    /\ productos' = Aplica(productos, tx[c].delta)
    /\ bloqueo' = Libera(c)
    /\ pedido' = [pedido EXCEPT ![c].total = tx[c].total]
    /\ tx' = [tx EXCEPT ![c] = TxVacia]
    /\ pc' = [pc EXCEPT ![c] = "adjust_stock"]
    /\ idx' = [idx EXCEPT ![c] = 1]
    /\ interferido' = Marca(c)
    /\ UNCHANGED <<usuarios, seqPedido, resultado, entrada, antes, nAjustes, ajuste, extVars>>

\* -------------------------------------------------------- ProductoDAO
\* Variant: the statement sets the quantity to the delta.
adjust_stock_asigna(tabla, producto_id, delta) ==
    IF producto_id \in DOMAIN tabla
    THEN [tabla EXCEPT ![producto_id].cantidad = delta]
    ELSE tabla

\* ProductoDAO.adjust_stock: UPDATE productos SET cantidad = cantidad + delta
\* WHERE id = ... RETURNING cantidad, committed at once.  The table after it.
adjust_stock(tabla, producto_id, delta) ==
    IF producto_id \in DOMAIN tabla
    THEN [tabla EXCEPT ![producto_id].cantidad = @ + delta]
    ELSE tabla

\* What ProductoDAO.adjust_stock returns: the RETURNING cantidad of the row
\* as <<q>>, or None, written << >>, when no row matched.
adjust_stock_ret(tabla, producto_id, delta) ==
    IF producto_id \in DOMAIN tabla
    THEN <<tabla[producto_id].cantidad + delta>>
    ELSE << >>

\* The UPDATE of adjust_stock waits while a transaction holds the row.
FilaLibre(producto_id) ==
    producto_id \in DOMAIN productos => bloqueo[producto_id] = 0

\* One turn of the loop that closes crear_pedido: for every line of the
\* created order, producto_dao.adjust_stock(item.producto_id, -item.cantidad).
crear_pedido_adjust_stock(c) ==
    /\ pc[c] = "adjust_stock"
    /\ LET it == pedido[c].items[idx[c]]
       IN  /\ FilaLibre(it.producto_id)
           /\ productos' = adjust_stock(productos, it.producto_id, 0 - it.cantidad)
           /\ IF idx[c] < Len(pedido[c].items)
              THEN /\ idx' = [idx EXCEPT ![c] = idx[c] + 1]
                   /\ UNCHANGED <<pc, resultado>>
              ELSE /\ Termina(c, Ok)
                   /\ UNCHANGED idx
    /\ interferido' = Marca(c)
    /\ UNCHANGED <<usuarios, pedidos, detalles, seqPedido, bloqueo, pedido, tx,
                   entrada, antes, nAjustes, ajuste, extVars>>

\* What ajustar_stock does with the quantity the DAO returned: None raises
\* the not-found error, a negative one the stock error.
ErrorAjuste(new_qty) ==
    IF new_qty = << >> THEN ErrProductoNoExiste
    ELSE IF new_qty[1] < 0 THEN ErrStock
    ELSE Ok

\* The quantity of a product as <<q>>, << >> when it has no row.
Cantidad(tabla, producto_id) ==
    IF producto_id \in DOMAIN tabla THEN <<tabla[producto_id].cantidad>> ELSE << >>

\* No call of ajustar_stock yet.
SinAjuste(prods) ==
    [producto_id |-> None, delta |-> 0, previo |-> << >>, new_qty |-> << >>,
     res |-> EnCurso, suma |-> [p \in DOMAIN prods |-> 0]]

\* ProductoServicio.ajustar_stock(producto_id, delta): the DAO call commits,
\* and only then is the returned quantity looked at.  ajuste keeps the call,
\* the quantity it found, what the DAO returned, what the service returned
\* or raised, and the deltas asked of every product so far.
ajustar_stock(producto_id, delta) ==
    /\ nAjustes < MaxAjustes
    /\ FilaLibre(producto_id)
    /\ productos' = adjust_stock(productos, producto_id, delta)
    /\ nAjustes' = nAjustes + 1
    /\ LET new_qty == adjust_stock_ret(productos, producto_id, delta)
       IN  ajuste' = [producto_id |-> producto_id, delta |-> delta,
                      previo |-> Cantidad(productos, producto_id),
                      new_qty |-> new_qty,
                      res |-> ErrorAjuste(new_qty),
                      suma |-> [p \in DOMAIN ajuste.suma |->
                                  ajuste.suma[p] + (IF p = producto_id THEN delta ELSE 0)]]
    /\ interferido' = IF producto_id \in DOMAIN productos
                      THEN Marca(0) ELSE interferido
    /\ UNCHANGED <<usuarios, pedidos, detalles, seqPedido, bloqueo, wkVars,
                   entrada, antes, extVars>>

\* ------------------------------------------------------ product update
\* ProductoServicio._validate_producto on the price and the quantity.
ErrorProducto(p) ==
    IF p.precio < 0 THEN "'precio' no puede ser negativo"
    ELSE IF p.cantidad < 0 THEN "'cantidad' no puede ser negativa"
    ELSE EnCurso

\* ProductoDAO.update: UPDATE productos SET ..., precio, cantidad, ... WHERE
\* id = p.id, committed at once.  The table after it.
update(tabla, p) ==
    IF p.id \in DOMAIN tabla
    THEN [tabla EXCEPT ![p.id] = [cantidad |-> p.cantidad, precio |-> p.precio]]
    ELSE tabla

\* ProductoServicio.actualizar_producto(producto_id, data): a product that
\* does not exist or data that does not validate raise before the UPDATE,
\* which waits while a transaction holds the row.
actualizar_producto(producto_id, data) ==
    LET updated == [id |-> producto_id, precio |-> data.precio,
                    cantidad |-> data.cantidad]
        escribe == producto_id \in DOMAIN productos /\ ErrorProducto(updated) = EnCurso
    IN  /\ escribe => FilaLibre(producto_id)
        /\ productos' = IF escribe THEN update(productos, updated) ELSE productos
        /\ interferido' = IF escribe THEN Marca(0) ELSE interferido
        /\ UNCHANGED <<usuarios, pedidos, detalles, seqPedido, bloqueo, wkVars,
                       entrada, antes, nAjustes, ajuste, extVars>>

\* ------------------------------------------------------------ deadlock
\* The worker whose row lock c is waiting for in create_select, or 0.
Espera(c) ==
    IF pc[c] = "create_select"
    THEN LET p == pedido[c].items[idx[c]].producto_id
         IN  IF p \in DOMAIN productos /\ bloqueo[p] \notin {0, c}
             THEN bloqueo[p] ELSE 0
    ELSE 0

RECURSIVE Alcanza(_, _, _)
Alcanza(d, c, n) ==
    IF d = 0 \/ n = 0 THEN FALSE
    ELSE IF d = c THEN TRUE
    ELSE Alcanza(Espera(d), c, n - 1)

\* PostgreSQL ends a cycle of lock waits by failing one of the waiting
\* statements; PedidoDAO.create rolls back and re-raises.
deadlock_detected(c) ==
    /\ Alcanza(Espera(c), c, Cardinality(Workers))
    /\ Rollback(c, ErrDeadlock)
    /\ UNCHANGED <<productos, usuarios, pedidos, detalles, seqPedido, pedido,
                   idx, histVars, nAjustes, ajuste, extVars>>

\* ----------------------------------------------------- sensor readings
\* A reading whose "cantidad" key is missing: lectura["cantidad"] raises
\* KeyError.
SinClave == 0 - 2
ErrKeyError == "KeyError"

\* Variant: the reading is added to the quantity.
replace_stock_suma(tabla, producto_id, cantidad) ==
    IF producto_id \in DOMAIN tabla
    THEN [tabla EXCEPT ![producto_id].cantidad = @ + cantidad]
    ELSE tabla

\* ProductoDAO.replace_stock(producto_id, cantidad): sets the quantity of the
\* row to the reading.  The table after it.
replace_stock(tabla, producto_id, cantidad) ==
    IF producto_id \in DOMAIN tabla
    THEN [tabla EXCEPT ![producto_id].cantidad = cantidad]
    ELSE tabla

\* What replace_stock returns: the new quantity as <<q>>; << >> stands for
\* the not-found failure when no row matched.
replace_stock_ret(tabla, producto_id, cantidad) ==
    IF producto_id \in DOMAIN tabla THEN <<cantidad>> ELSE << >>

\* Variant: the low-stock test is strict.
NivelEstricto(cantidad) ==
    IF cantidad = 0 THEN "error"
    ELSE IF cantidad < UmbralBajo THEN "warning"
    ELSE ""

\* The nivel of the notification a quantity asks for, "" when it asks for none.
Nivel(cantidad) ==
    IF cantidad = 0 THEN "error"
    ELSE IF cantidad <= UmbralBajo THEN "warning"
    ELSE ""

\* The mensaje that goes with it.
Mensaje(cantidad) ==
    IF cantidad = 0 THEN "Stock agotado"
    ELSE IF cantidad <= UmbralBajo THEN "Stock bajo"
    ELSE ""

\* Variant: the role is not looked at.
get_usuarios_todos(tabla, rol) == DOMAIN tabla

\* UsuarioDAO.get_usuarios_por_rol(rol): the ids of the users of that role.
get_usuarios_por_rol(tabla, rol) == {u \in DOMAIN tabla : tabla[u].rol = rol}

\* Variant: no new notification while one of the same product and nivel exists.
NotificaUnaVez(tabla, admins, k, producto_id, cantidad) ==
    IF \E n \in tabla : n.producto_id = producto_id /\ n.nivel = Nivel(cantidad)
    THEN {}
    ELSE {[id |-> Cardinality(tabla) + Cardinality({b \in admins : b <= a}),
           tipo |-> "inventario", mensaje |-> Mensaje(cantidad),
           producto_id |-> producto_id, destinatario_id |-> a, leida |-> FALSE,
           nivel |-> Nivel(cantidad), lectura |-> k] : a \in admins}

\* The rows NotificacionDAO.create inserts for reading k: one per admin; ids
\* come from the SERIAL sequence, in the order of the admins' ids.
Notifica(tabla, admins, k, producto_id, cantidad) ==
    {[id |-> Cardinality(tabla) + Cardinality({b \in admins : b <= a}),
      tipo |-> "inventario", mensaje |-> Mensaje(cantidad),
      producto_id |-> producto_id, destinatario_id |-> a, leida |-> FALSE,
      nivel |-> Nivel(cantidad), lectura |-> k] : a \in admins}

\* No replace_stock call yet.
SinReplace ==
    [n |-> 0, producto_id |-> None, cantidad |-> 0, ret |-> << >>,
     previa |-> << >>, despues |-> << >>,
     ant |-> [producto_id |-> None, cantidad |-> 0, ret |-> << >>, despues |-> << >>]]

\* No MQTT message yet.  rs keeps the last call of replace_stock and the one
\* before it: arguments, result, the productos table before and after;
\* antes keeps the usuarios table as it was when the batch started.
SinLote ==
    [pc |-> "idle", lecturas |-> << >>, pos |-> 1, admins |-> {},
     res |-> EnCurso, rs |-> SinReplace, antes |-> << >>]

\* The readings of a batch: product id and gauge quantity.
Lecturas(ids, cantidades) == [producto_id : ids, cantidad : cantidades]

\* manejar_mensaje: a message with readings starts procesar_lecturas_sensor,
\* which reads the admins once; one without readings is dropped.
manejar_mensaje(L) ==
    /\ sensor.pc = "idle"
    /\ \E lecturas \in L :
        sensor' = IF lecturas = << >>
                  THEN [sensor EXCEPT !.pc = "done", !.res = Ok]
                  ELSE [sensor EXCEPT !.pc = "replace", !.lecturas = lecturas,
                                      !.pos = 1,
                                      !.admins = get_usuarios_por_rol(usuarios, "admin"),
                                      !.antes = usuarios]
    /\ UNCHANGED <<dbVars, wkVars, histVars, nAjustes, ajuste, notificaciones, cambio>>

\* The exception ends procesar_lecturas_sensor: nothing in its loop catches
\* it, manejar_mensaje logs it.
SensorFalla(err) == [sensor EXCEPT !.pc = "done", !.res = err]

\* The first statements of one turn of the loop: read the two keys of the
\* reading and call replace_stock, which commits.
lectura_replace ==
    /\ sensor.pc = "replace"
    /\ LET lectura == sensor.lecturas[sensor.pos]
           p == lectura.producto_id
           ret == replace_stock_ret(productos, p, lectura.cantidad)
           llamada == [n |-> sensor.rs.n + 1, producto_id |-> p,
                       cantidad |-> lectura.cantidad, ret |-> ret,
                       previa |-> productos,
                       despues |-> replace_stock(productos, p, lectura.cantidad),
                       ant |-> [producto_id |-> sensor.rs.producto_id,
                                cantidad |-> sensor.rs.cantidad,
                                ret |-> sensor.rs.ret,
                                despues |-> sensor.rs.despues]]
       IN  IF lectura.cantidad = SinClave
           THEN /\ sensor' = SensorFalla(ErrKeyError)
                /\ UNCHANGED <<productos, interferido>>
           ELSE /\ FilaLibre(p)
                /\ productos' = replace_stock(productos, p, lectura.cantidad)
                /\ IF ret = << >>
                   THEN /\ sensor' = [SensorFalla(ErrProductoNoExiste) EXCEPT !.rs = llamada]
                        /\ UNCHANGED interferido
                   ELSE /\ sensor' = [sensor EXCEPT !.pc = "get", !.rs = llamada]
                        /\ interferido' = Marca(0)
    /\ UNCHANGED <<usuarios, pedidos, detalles, seqPedido, bloqueo, wkVars,
                   entrada, antes, nAjustes, ajuste, notificaciones, cambio>>

\* The rest of the turn: get_by_id, skip the reading when the row is gone,
\* else classify the quantity read back and notify every admin.
lectura_notificar ==
    /\ sensor.pc = "get"
    /\ LET p == sensor.lecturas[sensor.pos].producto_id
       IN  notificaciones' =
              IF p \in DOMAIN productos /\ Nivel(productos[p].cantidad) # ""
              THEN notificaciones \cup
                      Notifica(notificaciones, sensor.admins, sensor.pos, p,
                               productos[p].cantidad)
              ELSE notificaciones
    /\ sensor' = IF sensor.pos < Len(sensor.lecturas)
                 THEN [sensor EXCEPT !.pc = "replace", !.pos = sensor.pos + 1]
                 ELSE [sensor EXCEPT !.pc = "done", !.res = Ok]
    /\ UNCHANGED <<dbVars, wkVars, histVars, nAjustes, ajuste, cambio>>

\* --------------------------------------------------------- user update
\* UsuarioServicio._validate_usuario on the role.
ErrorRol(rol) == IF rol \notin {"user", "admin"} THEN "'rol' inválido" ELSE EnCurso

\* UsuarioDAO.update: UPDATE usuarios SET ..., rol = ... WHERE id = u.id,
\* committed at once.  The table after it.
usuario_update(tabla, usuario_id, rol) ==
    IF usuario_id \in DOMAIN tabla
    THEN [tabla EXCEPT ![usuario_id].rol = rol]
    ELSE tabla

\* UsuarioServicio.actualizar_usuario(usuario_id, {'rol': rol}): a user that
\* does not exist or a role that does not validate raise before the UPDATE.
actualizar_usuario(usuario_id, rol) ==
    /\ usuarios' = IF usuario_id \in DOMAIN usuarios /\ ErrorRol(rol) = EnCurso
                   THEN usuario_update(usuarios, usuario_id, rol)
                   ELSE usuarios
    /\ UNCHANGED <<productos, pedidos, detalles, seqPedido, bloqueo, wkVars,
                   histVars, nAjustes, ajuste, extVars>>

\* ------------------------------------------------------- status change
estados_validos == {"pendiente", "confirmado", "enviado", "cancelado"}

ErrEstado == "Estado no es valido"
ErrPedidoNoExiste == "Pedido no existe"

\* Status texts that contain the words "no existe".
EstadosConNoExiste == {"no existe"}

\* No call of cambiar_estado yet.
SinCambio ==
    [pedido_id |-> None, nuevo_estado |-> "", res |-> EnCurso, antes |-> {}]

\* Variant: the UPDATE has no WHERE clause.
update_estado_todos(tabla, pedido_id, nuevo_estado) ==
    {[o EXCEPT !.estado = nuevo_estado] : o \in tabla}

\* PedidoDAO.update_estado: UPDATE pedidos SET estado = ... WHERE id = ...
update_estado(tabla, pedido_id, nuevo_estado) ==
    {IF o.id = pedido_id THEN [o EXCEPT !.estado = nuevo_estado] ELSE o : o \in tabla}

\* Variant: a cancelled order takes no further status.
ErrorCambioTerminal(tabla, pedido_id, nuevo_estado) ==
    IF nuevo_estado \notin estados_validos THEN ErrEstado
    ELSE IF \A o \in tabla : o.id # pedido_id THEN ErrPedidoNoExiste
    ELSE IF \E o \in tabla : o.id = pedido_id /\ o.estado = "cancelado" THEN ErrEstado
    ELSE Ok

\* What cambiar_estado raises: a status outside the list before any write,
\* then an order id that matched no row.
ErrorCambio(tabla, pedido_id, nuevo_estado) ==
    IF nuevo_estado \notin estados_validos THEN ErrEstado
    ELSE IF \A o \in tabla : o.id # pedido_id THEN ErrPedidoNoExiste
    ELSE Ok

\* PedidoServicio.cambiar_estado(pedido_id, nuevo_estado).
cambiar_estado(pedido_id, nuevo_estado) ==
    /\ LET err == ErrorCambio(pedidos, pedido_id, nuevo_estado)
       IN  /\ cambio' = [pedido_id |-> pedido_id, nuevo_estado |-> nuevo_estado,
                         res |-> err, antes |-> pedidos]
           /\ pedidos' = IF err = Ok
                         THEN update_estado(pedidos, pedido_id, nuevo_estado)
                         ELSE pedidos
           /\ interferido' = IF err = Ok THEN Marca(0) ELSE interferido
    /\ UNCHANGED <<productos, usuarios, detalles, seqPedido, bloqueo, wkVars,
                   entrada, antes, nAjustes, ajuste, notificaciones, sensor>>

\* The status PATCH /pedidos/{id}/estado answers with: a ValueError whose
\* text contains "no existe" is a 404, any other ValueError a 400.  The text
\* of the invalid-status error quotes the status asked for.
HttpStatusEstado(res, nuevo_estado) ==
    IF res = Ok THEN 200
    ELSE IF res = ErrPedidoNoExiste THEN 404
    ELSE IF res = ErrEstado /\ nuevo_estado \in EstadosConNoExiste THEN 404
    ELSE 400

\* ---------------------------------------------------------------- runs
\* The store at start: the given products and users, no orders, no call.
InitCon(W, prods, us) ==
    /\ productos = prods
    /\ usuarios = us
    /\ pedidos = {}
    /\ detalles = {}
    /\ seqPedido = 0
    /\ bloqueo = [p \in DOMAIN prods |-> 0]
    /\ pc = [c \in W |-> "idle"]
    /\ pedido = [c \in W |-> [id |-> None, usuario_id |-> None,
                               estado |-> "pendiente", items |-> << >>,
                               total |-> None]]
    /\ idx = [c \in W |-> 1]
    /\ tx = [c \in W |-> TxVacia]
    /\ resultado = [c \in W |-> EnCurso]
    /\ entrada = [c \in W |-> [forma |-> "Pedido", usuario_id |-> None,
                                estado |-> "pendiente", items |-> << >>]]
    /\ antes = [c \in W |-> [productos |-> prods, pedidos |-> {}, detalles |-> {}]]
    /\ interferido = [c \in W |-> FALSE]
    /\ nAjustes = 0
    /\ ajuste = SinAjuste(prods)
    /\ notificaciones = {}
    /\ sensor = SinLote
    /\ cambio = SinCambio

Usuarios0 == (1 :> [rol |-> "user"]) @@ (2 :> [rol |-> "admin"])
Productos0 == (1 :> [cantidad |-> 3, precio |-> 10]) @@
              (2 :> [cantidad |-> 1, precio |-> 4])

\* Product and user ids a request may carry: 3 names no row.
IdsProducto == {1, 2, 3}
IdsUsuario == {1, 3, None}

\* The same shop with product 1 sold out.
Productos1 == (1 :> [cantidad |-> 0, precio |-> 10]) @@
              (2 :> [cantidad |-> 2, precio |-> 4])

\* One request, any payload, on either stock.
Init ==
    \E prods \in {Productos0, Productos1} : InitCon({1}, prods, Usuarios0)

Next ==
    \/ \E c \in Workers : crear_pedido(c, Entradas(IdsProducto, IdsUsuario))
    \/ \E c \in Workers : validar_usuario(c)
    \/ \E c \in Workers : validar_item(c)
    \/ \E c \in Workers : create_select(c)
    \/ \E c \in Workers : create_insert_pedido(c)
    \/ \E c \in Workers : create_insert_detalle(c)
    \/ \E c \in Workers : create_commit(c)
    \/ \E c \in Workers : crear_pedido_adjust_stock(c)

Spec == Init /\ [][Next]_vars

\* Two requests in parallel, each a typed Pedido of an existing user with
\* one or two lines on the existing products, no other writer.
EntradasConc ==
    LET L == [producto_id : {1, 2}, cantidad : {1, 2}, precio_unitario : {None}]
    IN  [forma : {"Pedido"}, usuario_id : {1, 2}, estado : {"pendiente"},
         items : {<<a>> : a \in L} \cup {<<a, b>> : a, b \in L}]

InitConc == InitCon({1, 2}, Productos0, Usuarios0)

NextConc ==
    \/ \E c \in Workers : crear_pedido(c, EntradasConc)
    \/ \E c \in Workers : validar_usuario(c)
    \/ \E c \in Workers : validar_item(c)
    \/ \E c \in Workers : create_select(c)
    \/ \E c \in Workers : create_insert_pedido(c)
    \/ \E c \in Workers : create_insert_detalle(c)
    \/ \E c \in Workers : create_commit(c)
    \/ \E c \in Workers : crear_pedido_adjust_stock(c)
    \/ \E c \in Workers : deadlock_detected(c)

SpecConc == InitConc /\ [][NextConc]_vars

\* Three requests in parallel, each for the last unit of product 2.
EntradasUltima ==
    [forma : {"Pedido", "dict"}, usuario_id : {1}, estado : {"pendiente"},
     items : {<<[producto_id |-> 2, cantidad |-> 1, precio_unitario |-> None]>>}]

InitUltima == InitCon({1, 2, 3}, Productos0, Usuarios0)

NextUltima ==
    \/ \E c \in Workers : crear_pedido(c, EntradasUltima)
    \/ \E c \in Workers : validar_usuario(c)
    \/ \E c \in Workers : validar_item(c)
    \/ \E c \in Workers : create_select(c)
    \/ \E c \in Workers : create_insert_pedido(c)
    \/ \E c \in Workers : create_insert_detalle(c)
    \/ \E c \in Workers : create_commit(c)
    \/ \E c \in Workers : crear_pedido_adjust_stock(c)

SpecUltima == InitUltima /\ [][NextUltima]_vars

\* One request for one or two lines, with calls of the stock-adjust endpoint
\* before, during and after it.
InitAjuste == InitCon({1}, Productos0, Usuarios0)

NextAjuste ==
    \/ \E c \in Workers : crear_pedido(c, EntradasConc)
    \/ \E c \in Workers : validar_usuario(c)
    \/ \E c \in Workers : validar_item(c)
    \/ \E c \in Workers : create_select(c)
    \/ \E c \in Workers : create_insert_pedido(c)
    \/ \E c \in Workers : create_insert_detalle(c)
    \/ \E c \in Workers : create_commit(c)
    \/ \E c \in Workers : crear_pedido_adjust_stock(c)
    \/ \E p \in IdsProducto, d \in {0 - 1, 1} : ajustar_stock(p, d)

SpecAjuste == InitAjuste /\ [][NextAjuste]_vars

\* Calls of the stock-adjust endpoint alone, on any product id.
Deltas == {0 - 2, 0 - 1, 1, 2}

InitStock == InitCon({1}, Productos0, Usuarios0)

NextStock == \E p \in IdsProducto, d \in Deltas : ajustar_stock(p, d)

SpecStock == InitStock /\ [][NextStock]_vars

\* One MQTT message: a batch of readings on any product id, some without
\* the "cantidad" key, in a shop with two admins.
UsuariosSensor == (1 :> [rol |-> "user"]) @@ (2 :> [rol |-> "admin"]) @@
                  (3 :> [rol |-> "admin"])
CantidadesLeidas == {0, 1, UmbralBajo, UmbralBajo + 1, SinClave}
Lotes == SeqHasta(Lecturas(IdsProducto, CantidadesLeidas), MaxLecturas)

InitSensor == InitCon({1}, Productos0, UsuariosSensor)

NextSensor ==
    \/ manejar_mensaje(Lotes)
    \/ lectura_replace
    \/ lectura_notificar

SpecSensor == InitSensor /\ [][NextSensor]_vars

\* Orders whose payload carries a status, and status changes on any order id
\* with any status text.
EstadosDados == {"pendiente", "enviado", "entregado"}
EstadosPedidos == {"confirmado", "cancelado", "entregado", "no existe"}
EntradasEstado ==
    [forma : {"Pedido", "dict"}, usuario_id : {1}, estado : EstadosDados,
     items : {<<[producto_id |-> 1, cantidad |-> 1, precio_unitario |-> None]>>}]

InitEstado == InitCon({1}, Productos0, Usuarios0)

NextEstado ==
    \/ \E c \in Workers : crear_pedido(c, EntradasEstado)
    \/ \E c \in Workers : validar_usuario(c)
    \/ \E c \in Workers : validar_item(c)
    \/ \E c \in Workers : create_select(c)
    \/ \E c \in Workers : create_insert_pedido(c)
    \/ \E c \in Workers : create_insert_detalle(c)
    \/ \E c \in Workers : create_commit(c)
    \/ \E c \in Workers : crear_pedido_adjust_stock(c)
    \/ \E o \in {1, 3}, e \in EstadosPedidos : cambiar_estado(o, e)

SpecEstado == InitEstado /\ [][NextEstado]_vars

\* =====================================================================
\* Properties
\* =====================================================================
\* The error classes of the design, by message.
Clase(res) ==
    IF res \in {ErrSinItems, ErrSinUsuario, ErrCantidad} THEN "ValidationError"
    ELSE IF res \in {ErrUsuarioNoExiste, ErrProductoNoExiste} THEN "NotFoundError"
    ELSE IF res = ErrStock THEN "ConflictError"
    ELSE IF res = Ok THEN "Ok"
    ELSE "InternalError"

RECURSIVE SumaSobre(_, _)
\* The sum of the quantities of a set of detalle rows / lines.
SumaSobre(S, campo) ==
    IF S = {} THEN 0
    ELSE LET x == CHOOSE y \in S : TRUE
         IN  (IF campo = "cantidad" THEN x.cantidad
              ELSE x.precio_unitario * x.cantidad) + SumaSobre(S \ {x}, campo)

\* The quantity the lines of worker c's order ask of product p.
Pedida(c, p) ==
    SumSeq([k \in 1..Len(pedido[c].items) |->
        IF pedido[c].items[k].producto_id = p THEN pedido[c].items[k].cantidad ELSE 0])

\* C1: every product's quantity is >= 0 in every reachable state.
StockNoNegativo ==
    \A p \in DOMAIN productos : productos[p].cantidad >= 0

\* C2: with stock 1 and several parallel orders for one unit each, when all
\* have returned exactly one has succeeded, the others have failed with the
\* insufficient-stock conflict, and the stock is 0; it is never negative.
UltimaUnidad ==
    /\ productos[2].cantidad >= 0
    /\ (\A c \in Workers : pc[c] = "done") =>
          /\ Cardinality({c \in Workers : resultado[c] = Ok}) = 1
          /\ \A c \in Workers : resultado[c] # Ok => Clase(resultado[c]) = "ConflictError"
          /\ productos[2].cantidad = 0

\* C3: no overselling: with orders as the only stock writers, the quantities
\* of the committed order lines of a product sum to at most its initial stock.
SinSobreventa ==
    \A p \in DOMAIN productos :
        SumaSobre({d \in detalles : d.producto_id = p}, "cantidad")
            <= Productos0[p].cantidad

\* The tables once worker c's order is wholly applied to the tables it found.
Completo(c) ==
    LET its == pedido[c].items
    IN  [productos |-> [p \in DOMAIN antes[c].productos |->
                          [antes[c].productos[p] EXCEPT !.cantidad = @ - Pedida(c, p)]],
         pedidos |-> antes[c].pedidos \cup
                        {[id |-> pedido[c].id, usuario_id |-> pedido[c].usuario_id,
                          estado |-> pedido[c].estado,
                          total |-> SumSeq([k \in 1..Len(its) |->
                                      its[k].precio_unitario * its[k].cantidad])]},
         detalles |-> antes[c].detalles \cup
                        {[pedido_id |-> pedido[c].id, linea |-> k,
                          producto_id |-> its[k].producto_id,
                          cantidad |-> its[k].cantidad,
                          precio_unitario |-> its[k].precio_unitario,
                          subtotal |-> its[k].precio_unitario * its[k].cantidad]
                         : k \in 1..Len(its)}]

\* C4: all or nothing: with no other writer, the committed tables are either
\* the ones the call found or those with the header, every line and every
\* stock decrement of the order; a failed call leaves the ones it found.
TodoONada ==
    \A c \in Workers :
        (pc[c] # "idle" /\ ~interferido[c]) =>
            \/ Tablas = antes[c]
            \/ /\ resultado[c] \in {EnCurso, Ok}
               /\ pc[c] \in {"adjust_stock", "done"}
               /\ Tablas = Completo(c)

\* C5: a persisted order's total is the sum of unit price times quantity of
\* its persisted lines, each line's subtotal is its unit price times its
\* quantity, and the returned order carries that total.
TotalEsSuma ==
    /\ \A o \in pedidos :
          o.total = SumaSobre({d \in detalles : d.pedido_id = o.id}, "importe")
    /\ \A d \in detalles : d.subtotal = d.precio_unitario * d.cantidad
    /\ \A c \in Workers :
          resultado[c] = Ok =>
              /\ \E o \in pedidos : o.id = pedido[c].id /\ o.total = pedido[c].total
              /\ pedido[c].total =
                    SumSeq([k \in 1..Len(pedido[c].items) |->
                        pedido[c].items[k].precio_unitario * pedido[c].items[k].cantidad])

\* An order of two lines, one priced by the caller and one by the product,
\* has been created.
TotalEsSumaWitness ==
    \E c \in Workers :
        /\ resultado[c] = Ok
        /\ Len(entrada[c].items) = 2
        /\ entrada[c].items[1].precio_unitario = 7
        /\ entrada[c].items[1].cantidad = 2
        /\ entrada[c].items[2].precio_unitario = None
        /\ entrada[c].items[2].producto_id = 2
        /\ pedido[c].total = 18

\* C6: after a successful order with no other writer, every product's stock
\* is what the call found less the quantity the order's lines ask of it.
DescuentoExacto ==
    \A c \in Workers :
        (resultado[c] = Ok /\ ~interferido[c]) =>
            \A p \in DOMAIN productos :
                productos[p].cantidad = antes[c].productos[p].cantidad - Pedida(c, p)

\* --------------------------------------------------- failed requests
\* The call of worker c has raised a ValueError.
Falla(c) == pc[c] = "done" /\ resultado[c] \in ValueErrors

\* Nothing of the call of worker c is in the tables: no order, no line, and
\* (no other writer having touched them) the stock it found.
SinEfecto(c) ==
    /\ pedidos = antes[c].pedidos
    /\ detalles = antes[c].detalles
    /\ ~interferido[c] => productos = antes[c].productos

\* The line passes every check against the stock the call found.
LineaBuena(it, tabla) ==
    /\ it.cantidad > 0
    /\ it.producto_id \in DOMAIN tabla
    /\ tabla[it.producto_id].cantidad >= it.cantidad

\* The user of the call exists.
ConUsuario(c) == entrada[c].usuario_id \in DOMAIN usuarios

\* The user of the call exists and every line before line k passes.
LlegaA(c, k) ==
    /\ ConUsuario(c)
    /\ ~interferido[c]
    /\ \A j \in 1..(k - 1) : LineaBuena(entrada[c].items[j], antes[c].productos)

LineasDe(c) == 1..Len(entrada[c].items)

\* Line k of the call names no product row.
SinProducto(c, k) == entrada[c].items[k].producto_id \notin DOMAIN antes[c].productos

\* Line k of the call asks for more than the product has.
Excede(c, k) ==
    LET it == entrada[c].items[k]
    IN  /\ it.producto_id \in DOMAIN antes[c].productos
        /\ antes[c].productos[it.producto_id].cantidad < it.cantidad

\* C7 as stated: an order (of an existing user) with a line on a missing
\* product fails with NotFoundError and nothing is persisted.
ProductoInexistente ==
    \A c \in Workers :
        (pc[c] = "done" /\ ConUsuario(c)
            /\ \E k \in LineasDe(c) : SinProducto(c, k)) =>
            /\ Clase(resultado[c]) = "NotFoundError"
            /\ SinEfecto(c)

\* C7 amended: an order with a line on a missing product always fails and
\* nothing is persisted; the error is the product-not-found one when the
\* user exists, the line's quantity is positive and every line before it
\* passes its checks.
ProductoInexistenteOrden ==
    \A c \in Workers :
        (pc[c] = "done" /\ \E k \in LineasDe(c) : SinProducto(c, k)) =>
            /\ Falla(c)
            /\ SinEfecto(c)
            /\ \A k \in LineasDe(c) :
                  (SinProducto(c, k) /\ entrada[c].items[k].cantidad > 0 /\ LlegaA(c, k))
                      => resultado[c] = ErrProductoNoExiste

\* A two-line order whose second line names no product has failed, its
\* first line being a valid line on an existing product.
ProductoInexistenteWitness ==
    \E c \in Workers :
        /\ pc[c] = "done"
        /\ resultado[c] = ErrProductoNoExiste
        /\ Len(entrada[c].items) = 2
        /\ LineaBuena(entrada[c].items[1], antes[c].productos)
        /\ SinProducto(c, 2)
        /\ Tablas = antes[c]

\* C8 as stated: an order without lines fails with ValidationError on both
\* input forms and nothing is persisted.
PedidoVacio ==
    \A c \in Workers :
        (pc[c] = "done" /\ entrada[c].items = << >>) =>
            /\ Clase(resultado[c]) = "ValidationError"
            /\ SinEfecto(c)

\* C8 amended: an order without lines always fails and nothing is persisted;
\* a dict payload always fails with the empty-order error, a typed Pedido
\* does so when its user exists, and fails with the usuario_id or
\* user-not-found error before that otherwise.
PedidoVacioOrden ==
    \A c \in Workers :
        (pc[c] = "done" /\ entrada[c].items = << >>) =>
            /\ Falla(c)
            /\ SinEfecto(c)
            /\ entrada[c].forma = "dict" => resultado[c] = ErrSinItems
            /\ entrada[c].forma = "Pedido" =>
                  resultado[c] =
                      IF entrada[c].usuario_id = None THEN ErrSinUsuario
                      ELSE IF entrada[c].usuario_id \notin DOMAIN usuarios
                           THEN ErrUsuarioNoExiste
                      ELSE ErrSinItems

\* A typed Pedido without lines, of an existing user, has failed with the
\* empty-order error.
PedidoVacioWitness ==
    \E c \in Workers :
        /\ pc[c] = "done"
        /\ entrada[c].items = << >>
        /\ entrada[c].forma = "Pedido"
        /\ entrada[c].usuario_id \in DOMAIN usuarios
        /\ resultado[c] = ErrSinItems
        /\ Tablas = antes[c]

CantidadInvalida ==
    /\ \A d \in detalles : d.cantidad > 0
    /\ \A c \in Workers :
          (pc[c] = "done" /\ ConUsuario(c)
              /\ \E k \in LineasDe(c) : entrada[c].items[k].cantidad <= 0) =>
              /\ resultado[c] = ErrCantidad
              /\ SinEfecto(c)

\* C10 amended: an order with a line of quantity <= 0 always fails and
\* nothing changes; the error is the invalid-quantity one, whether or not
\* the line's product exists or has stock, when the user exists and every
\* line before it passes; every persisted line has a positive quantity.
CantidadInvalidaOrden ==
    /\ \A d \in detalles : d.cantidad > 0
    /\ \A c \in Workers :
          (pc[c] = "done" /\ \E k \in LineasDe(c) : entrada[c].items[k].cantidad <= 0) =>
              /\ Falla(c)
              /\ SinEfecto(c)
              /\ \A k \in LineasDe(c) :
                    (entrada[c].items[k].cantidad <= 0 /\ LlegaA(c, k))
                        => resultado[c] = ErrCantidad

\* An order whose line has quantity 0 on a product that does not exist has
\* failed with the invalid-quantity error.
CantidadInvalidaWitness ==
    \E c \in Workers :
        /\ pc[c] = "done"
        /\ resultado[c] = ErrCantidad
        /\ \E k \in LineasDe(c) :
              /\ entrada[c].items[k].cantidad = 0
              /\ SinProducto(c, k)
        /\ Tablas = antes[c]

\* The call names a user id and no row of usuarios has it.
SinUsuario(c) ==
    /\ entrada[c].usuario_id # None
    /\ entrada[c].usuario_id \notin DOMAIN usuarios

\* C11 as stated: an order whose user id names no user fails with the
\* user-not-found error and nothing is persisted; every persisted order
\* names an existing user.
UsuarioInexistente ==
    /\ \A o \in pedidos : o.usuario_id \in DOMAIN usuarios
    /\ \A c \in Workers :
          (pc[c] = "done" /\ SinUsuario(c)) =>
              /\ resultado[c] = ErrUsuarioNoExiste
              /\ SinEfecto(c)

\* C11 amended: an order whose user id names no user always fails and
\* nothing is persisted; the error is the user-not-found one, except for a
\* dict payload without lines, which fails with the empty-order error first;
\* every persisted order names an existing user.
UsuarioInexistenteOrden ==
    /\ \A o \in pedidos : o.usuario_id \in DOMAIN usuarios
    /\ \A c \in Workers :
          (pc[c] = "done" /\ SinUsuario(c)) =>
              /\ Falla(c)
              /\ SinEfecto(c)
              /\ resultado[c] =
                    IF entrada[c].forma = "dict" /\ entrada[c].items = << >>
                    THEN ErrSinItems
                    ELSE ErrUsuarioNoExiste

\* An order of two valid lines for a user that does not exist has failed
\* with the user-not-found error and left the tables as they were.
UsuarioInexistenteWitness ==
    \E c \in Workers :
        /\ pc[c] = "done"
        /\ SinUsuario(c)
        /\ resultado[c] = ErrUsuarioNoExiste
        /\ Len(entrada[c].items) = 2
        /\ \A k \in LineasDe(c) : LineaBuena(entrada[c].items[k], antes[c].productos)
        /\ Tablas = antes[c]

\* ----------------------------------------------------- sensor batches
\* The admins of the shop.
Admins == get_usuarios_por_rol(usuarios, "admin")

\* The notifications made for reading k of the batch.
NotifsDe(k) == {n \in notificaciones : n.lectura = k}

\* The loop of procesar_lecturas_sensor has finished its turn for reading k.
Procesada(k) ==
    /\ k \in 1..Len(sensor.lecturas)
    /\ \/ sensor.pos > k
       \/ sensor.pos = k /\ sensor.pc = "done" /\ sensor.res = Ok

\* Reading k has made exactly one notification for every admin, of that
\* nivel, on the product of the reading.
UnaPorAdmin(k, nivel) ==
    /\ Cardinality(NotifsDe(k)) = Cardinality(Admins)
    /\ \A a \in Admins :
          \E n \in NotifsDe(k) :
              /\ n.destinatario_id = a
              /\ n.nivel = nivel
              /\ n.producto_id = sensor.lecturas[k].producto_id

\* C12: a processed reading of 0 has made one "error" notification per
\* admin, one between 1 and 10 one "warning" notification per admin, one
\* above 10 none.
NotificaPorNivel ==
    \A k \in 1..Len(sensor.lecturas) :
        Procesada(k) =>
            LET q == sensor.lecturas[k].cantidad
            IN  /\ q = 0 => UnaPorAdmin(k, "error")
                /\ (0 < q /\ q <= 10) => UnaPorAdmin(k, "warning")
                /\ q > 10 => NotifsDe(k) = {}

\* A batch of a reading of 0 and a reading of 10 on two products has been
\* processed: two "error" and two "warning" notifications.
NotificaPorNivelWitness ==
    /\ sensor.pc = "done"
    /\ sensor.res = Ok
    /\ Len(sensor.lecturas) = 2
    /\ sensor.lecturas[1].cantidad = 0
    /\ sensor.lecturas[2].cantidad = 10
    /\ Cardinality({n \in notificaciones : n.nivel = "error"}) = 2
    /\ Cardinality({n \in notificaciones : n.nivel = "warning"}) = 2

\* Reading k has both keys and names a product row.
LecturaBuena(k) ==
    /\ sensor.lecturas[k].cantidad # SinClave
    /\ sensor.lecturas[k].producto_id \in DOMAIN productos

\* C13: when the handler has finished a batch, every reading that has both
\* keys and names a product has been applied, whatever came before it in
\* the batch: its notifications are made and, when no later reading is on
\* the same product, the stock is its quantity; a discarded reading has made
\* no product row and no notification.
LoteSinAbortar ==
    sensor.pc = "done" =>
        /\ DOMAIN productos = DOMAIN Productos0
        /\ \A k \in 1..Len(sensor.lecturas) :
              IF LecturaBuena(k)
              THEN LET q == sensor.lecturas[k].cantidad
                       p == sensor.lecturas[k].producto_id
                   IN  /\ Nivel(q) # "" => UnaPorAdmin(k, Nivel(q))
                       /\ Nivel(q) = "" => NotifsDe(k) = {}
                       /\ (\A j \in (k + 1)..Len(sensor.lecturas) :
                              sensor.lecturas[j].producto_id # p)
                            => productos[p].cantidad = q
              ELSE NotifsDe(k) = {}

\* C16: a replace_stock call that repeats the call before it, with no other
\* write in between, leaves the table as the first left it and returns the
\* same value, the quantity; a call on a product without row fails and
\* leaves the table alone.
ReplaceIdempotente ==
    LET rs == sensor.rs
    IN  /\ (rs.n >= 1 /\ rs.producto_id \notin DOMAIN rs.previa) =>
              /\ rs.ret = << >>
              /\ rs.despues = rs.previa
        /\ (rs.n >= 1 /\ rs.producto_id \in DOMAIN rs.previa) =>
              /\ rs.ret = <<rs.cantidad>>
              /\ productos = rs.despues
        /\ (rs.n >= 2 /\ rs.producto_id = rs.ant.producto_id
                /\ rs.cantidad = rs.ant.cantidad /\ rs.previa = rs.ant.despues) =>
              /\ rs.despues = rs.ant.despues
              /\ rs.ret = rs.ant.ret

\* Two readings of 10 on product 1 have been applied one after the other.
ReplaceIdempotenteWitness ==
    /\ sensor.rs.n = 2
    /\ sensor.rs.producto_id = 1
    /\ sensor.rs.ant.producto_id = 1
    /\ sensor.rs.cantidad = 10
    /\ sensor.rs.ant.cantidad = 10
    /\ sensor.rs.previa = sensor.rs.ant.despues
    /\ productos[1].cantidad = 10

\* ------------------------------------------------------ stock adjust
\* C14: with calls of the stock adjust as the only writers, every product's
\* quantity is its initial quantity plus the deltas asked of it; the last
\* call returned the quantity its own update left, and a call on a product
\* without row has failed with the not-found error and changed nothing.
AjusteAtomico ==
    /\ \A p \in DOMAIN productos :
          productos[p].cantidad = Productos0[p].cantidad + ajuste.suma[p]
    /\ ajuste.res # EnCurso =>
          IF ajuste.previo = << >>
          THEN /\ ajuste.res = ErrProductoNoExiste
               /\ ajuste.new_qty = << >>
               /\ ajuste.producto_id \notin DOMAIN productos
          ELSE /\ ajuste.new_qty = <<ajuste.previo[1] + ajuste.delta>>
               /\ ajuste.new_qty = Cantidad(productos, ajuste.producto_id)

\* Two calls on product 1, of +2 and of -1, have left 3 + 2 - 1.
AjusteAtomicoWitness ==
    /\ nAjustes = 2
    /\ ajuste.suma[1] = 1
    /\ ajuste.producto_id = 1
    /\ ajuste.delta = 0 - 1
    /\ ajuste.previo = <<5>>
    /\ ajuste.new_qty = <<4>>
    /\ productos[1].cantidad = 4

\* C15: a call of ajustar_stock that would make the quantity negative has
\* failed with the insufficient-stock error and the stored quantity is the
\* one before the call.
GuardaNegativo ==
    (ajuste.res # EnCurso /\ ajuste.previo # << >>
        /\ ajuste.previo[1] + ajuste.delta < 0) =>
        /\ ajuste.res = ErrStock
        /\ productos[ajuste.producto_id].cantidad = ajuste.previo[1]

\* ------------------------------------------------------ order status
\* C17: the status of every persisted order is one of the four values of
\* the list, whatever orders were created and status changes made.
EstadoEnumerado ==
    \A o \in pedidos : o.estado \in estados_validos

\* C18: a status change to a value outside the list fails as a validation
\* error (answered 400, not as not-found) and writes nothing; one to a value
\* of the list on an order id without row fails as not-found (answered 404)
\* and creates no order.
CambioRechazado ==
    cambio.res # EnCurso =>
        /\ cambio.nuevo_estado \notin estados_validos =>
              /\ cambio.res = ErrEstado
              /\ HttpStatusEstado(cambio.res, cambio.nuevo_estado) = 400
              /\ pedidos = cambio.antes
        /\ (cambio.nuevo_estado \in estados_validos
                /\ \A o \in cambio.antes : o.id # cambio.pedido_id) =>
              /\ cambio.res = ErrPedidoNoExiste
              /\ HttpStatusEstado(cambio.res, cambio.nuevo_estado) = 404
              /\ pedidos = cambio.antes

\* ------------------------------------------------- check under the lock
\* Worker d takes a step.
Paso(d) == pc'[d] # pc[d] \/ idx'[d] # idx[d]

\* The step worker d is about to take reads the quantity of product p: the
\* get_by_id of the service's validation or the SELECT of the DAO.
Lee(d, p) ==
    /\ pc[d] \in {"validar_items", "create_select"}
    /\ pedido[d].items[idx[d]].producto_id = p
    /\ pc[d] = "validar_items" => pedido[d].items[idx[d]].cantidad > 0

\* Worker c is between the stock check of a line on product p and the last
\* decrement it makes for its lines on p.
EnVentana(c, p) ==
    \/ bloqueo[p] = c
    \/ /\ pc[c] = "adjust_stock"
       /\ \E k \in idx[c]..Len(pedido[c].items) : pedido[c].items[k].producto_id = p

\* C19: between the stock check of a line and the decrement for that line
\* no other order reads or changes the quantity of the line's product.
ChequeoBajoCandado ==
    [][\A c, d \in Workers : \A p \in DOMAIN productos :
          (c # d /\ EnVentana(c, p) /\ Paso(d)) =>
              /\ ~Lee(d, p)
              /\ productos'[p] = productos[p]]_vars

\* C20: an order whose lines pass one by one but ask together for more of a
\* product than it has fails with the stock error and nothing is persisted.
DefensaBajoCero ==
    \A c \in Workers :
        (pc[c] = "done" /\ ConUsuario(c) /\ ~interferido[c]
            /\ entrada[c].items # << >>
            /\ (\A k \in LineasDe(c) : LineaBuena(entrada[c].items[k], antes[c].productos))
            /\ \E p \in DOMAIN antes[c].productos :
                  Pedida(c, p) > antes[c].productos[p].cantidad) =>
            /\ resultado[c] = ErrStock
            /\ SinEfecto(c)

\* ------------------------------------------------------------ lock order
\* The products whose row lock worker c holds.
Tiene(c) == {p \in DOMAIN bloqueo : bloqueo[p] = c}

\* C21: an order takes the row locks of its products in ascending product
\* id, whatever the order of its lines: a lock it acquires is on a product
\* above all those it holds already.
CandadosAscendentes ==
    [][\A c \in Workers : \A p \in DOMAIN bloqueo :
          (bloqueo[p] # c /\ bloqueo'[p] = c) =>
              \A q \in Tiene(c) : q < p]_vars

\* ------------------------------------------------------------ lock waits
\* C22: every call ends Committed or Aborted with an error of the design;
\* two orders on the same products never end by waiting for each other, and
\* a call that gave up a lock wait failed with the conflict error, which
\* is not answered as an internal error.
EsperaTerminaEnConflicto ==
    \A c \in Workers :
        pc[c] = "done" =>
            /\ Clase(resultado[c]) \in
                   {"Ok", "ValidationError", "NotFoundError", "ConflictError"}
            /\ HttpStatus(resultado[c]) # 500

\* ------------------------------------------------------ order of phases
\* The transaction of worker c has committed.
Comprometido(c) == pc[c] = "adjust_stock" \/ (pc[c] = "done" /\ resultado[c] = Ok)

\* Every line of worker c has passed the check under the row lock.
Validado(c) ==
    \A k \in 1..Len(pedido[c].items) :
        LET it == pedido[c].items[k]
        IN  /\ ErrorItemDAO(it, productos) = EnCurso
            /\ bloqueo[it.producto_id] = c

\* C23: an order inserts its header and its lines only when every line is
\* validated, makes every stock decrement before it commits, and writes no
\* stock after its commit.
FasesEnOrden ==
    [][\A c \in Workers : Paso(c) =>
          /\ (tx'[c].pedido_id # tx[c].pedido_id /\ tx'[c].pedido_id # None)
                 => Validado(c)
          /\ tx'[c].detalles # tx[c].detalles /\ tx'[c].detalles # {}
                 => Validado(c)
          /\ Comprometido(c) => productos' = productos]_vars

\* --------------------------------------------- sensor reading and order
\* One order of an existing user in parallel with one MQTT message that
\* carries a single reading on one of the two products.
EntradasCarrera ==
    LET L == [producto_id : {1, 2}, cantidad : {1, 2}, precio_unitario : {None}]
    IN  [forma : {"Pedido"}, usuario_id : {1}, estado : {"pendiente"},
         items : {<<a>> : a \in L} \cup {<<a, b>> : a, b \in L}]

LotesCarrera == {<<l>> : l \in Lecturas({1, 2}, {2, 3})}

InitCarrera == InitCon({1}, Productos0, UsuariosSensor)

NextCarrera ==
    \/ \E c \in Workers : crear_pedido(c, EntradasCarrera)
    \/ \E c \in Workers : validar_usuario(c)
    \/ \E c \in Workers : validar_item(c)
    \/ \E c \in Workers : create_select(c)
    \/ \E c \in Workers : create_insert_pedido(c)
    \/ \E c \in Workers : create_insert_detalle(c)
    \/ \E c \in Workers : create_commit(c)
    \/ \E c \in Workers : crear_pedido_adjust_stock(c)
    \/ manejar_mensaje(LotesCarrera)
    \/ lectura_replace
    \/ lectura_notificar

SpecCarrera == InitCarrera /\ [][NextCarrera]_vars

\* C24: when a sensor replace to r and an order for q units of the same
\* product have both finished, whatever their interleaving, the quantity is
\* r (the replace came last) or r - q (the decrement came last).
ReplaceODecremento ==
    \A c \in Workers :
        (pc[c] = "done" /\ resultado[c] = Ok
            /\ sensor.pc = "done" /\ sensor.res = Ok) =>
            LET p == sensor.lecturas[1].producto_id
                r == sensor.lecturas[1].cantidad
                q == Pedida(c, p)
            IN  q > 0 => productos[p].cantidad \in {r, r - q}

\* ------------------------------------------------- prices of the lines
\* One order, typed or dict, whose lines carry a unit price or none, while
\* the catalogue changes prices and quantities of the products.
EntradasPrecio ==
    LET L == [producto_id : {1, 2}, cantidad : {1},
              precio_unitario : {None} \cup PreciosDados]
    IN  [forma : {"Pedido", "dict"}, usuario_id : {1}, estado : {"pendiente"},
         items : {<<a>> : a \in L} \cup {<<a, b>> : a, b \in L}]

DatosProducto == [precio : {0 - 5, 12}, cantidad : {3}]

InitPrecio == InitCon({1}, Productos0, Usuarios0)

NextPrecio ==
    \/ \E c \in Workers : crear_pedido(c, EntradasPrecio)
    \/ \E c \in Workers : validar_usuario(c)
    \/ \E c \in Workers : validar_item(c)
    \/ \E c \in Workers : create_select(c)
    \/ \E c \in Workers : create_insert_pedido(c)
    \/ \E c \in Workers : create_insert_detalle(c)
    \/ \E c \in Workers : create_commit(c)
    \/ \E c \in Workers : crear_pedido_adjust_stock(c)
    \/ \E p \in {1, 2}, data \in DatosProducto : actualizar_producto(p, data)

SpecPrecio == InitPrecio /\ [][NextPrecio]_vars

\* The persisted rows of line k of worker c's order.
FilasDe(c, k) == {d \in detalles : d.pedido_id = pedido[c].id /\ d.linea = k}

\* C25: a line that comes without unit price takes the product's price as
\* validation reads it and keeps it: the persisted line carries that price,
\* the total is built on it, and no later step, a change of the product's
\* price among them, alters a persisted line or a persisted order.
PrecioInstantanea ==
    [][\A c \in Workers :
          /\ (pc[c] = "validar_items" /\ Paso(c) /\ pc'[c] # "done"
                /\ entrada[c].items[idx[c]].precio_unitario = None) =>
                 pedido'[c].items[idx[c]].precio_unitario =
                     productos[pedido[c].items[idx[c]].producto_id].precio
          /\ \A k \in 1..Len(pedido[c].items) :
                (pc[c] # "idle" /\ pedido[c].items[k].precio_unitario # None) =>
                    pedido'[c].items[k].precio_unitario =
                        pedido[c].items[k].precio_unitario
          /\ (pc'[c] = "adjust_stock" \/ (pc'[c] = "done" /\ resultado'[c] = Ok)) =>
                /\ \A k \in 1..Len(pedido'[c].items) :
                      \E d \in detalles' :
                          /\ d.pedido_id = pedido'[c].id /\ d.linea = k
                          /\ d.precio_unitario = pedido'[c].items[k].precio_unitario
                /\ \E o \in pedidos' :
                      /\ o.id = pedido'[c].id
                      /\ o.total = SumSeq([k \in 1..Len(pedido'[c].items) |->
                                      pedido'[c].items[k].precio_unitario
                                          * pedido'[c].items[k].cantidad])
          /\ detalles \subseteq detalles'
          /\ pedidos \subseteq pedidos']_vars

\* An order for product 1 without unit price was created at price 10 and
\* the product's price has changed to 12 since.
PrecioInstantaneaWitness ==
    \E c \in Workers :
        /\ resultado[c] = Ok
        /\ entrada[c].items = <<[producto_id |-> 1, cantidad |-> 1,
                                 precio_unitario |-> None]>>
        /\ \E d \in FilasDe(c, 1) : d.precio_unitario = 10
        /\ \E o \in pedidos : o.id = pedido[c].id /\ o.total = 10
        /\ productos[1].precio = 12

\* The prices product p may have had while worker c's call ran.
PreciosDe(c, p) ==
    {antes[c].productos[p].precio}
        \cup {x.precio : x \in {y \in DatosProducto : ErrorProducto(
                [id |-> p, precio |-> y.precio, cantidad |-> y.cantidad]) = EnCurso}}

\* C30 as stated: a unit price the caller gives with a line is the one
\* persisted for that line, for a typed Pedido and for a dict payload alike.
PrecioDadoSeConserva ==
    \A c \in Workers :
        Comprometido(c) =>
            \A k \in LineasDe(c) :
                entrada[c].items[k].precio_unitario # None =>
                    \E d \in FilasDe(c, k) :
                        d.precio_unitario = entrada[c].items[k].precio_unitario

\* C30: a unit price given in a line of a typed Pedido is persisted as given
\* and the subtotal and total are built on it; a unit price given in a line
\* of a dict payload is dropped, and the line is persisted at the product's
\* price, the one the call found when nobody changed it meanwhile.
PrecioDadoPorForma ==
    \A c \in Workers :
        Comprometido(c) =>
            /\ \A k \in LineasDe(c) :
                  LET dado == entrada[c].items[k].precio_unitario
                      p == entrada[c].items[k].producto_id
                  IN  dado # None =>
                        /\ FilasDe(c, k) # {}
                        /\ \A d \in FilasDe(c, k) :
                              IF entrada[c].forma = "Pedido"
                              THEN /\ d.precio_unitario = dado
                                   /\ d.subtotal = dado * entrada[c].items[k].cantidad
                              ELSE /\ d.precio_unitario \in PreciosDe(c, p)
                                   /\ ~interferido[c] =>
                                        d.precio_unitario = antes[c].productos[p].precio
            /\ (entrada[c].forma = "Pedido"
                  /\ \A k \in LineasDe(c) : entrada[c].items[k].precio_unitario # None) =>
                  \E o \in pedidos :
                      /\ o.id = pedido[c].id
                      /\ o.total = SumSeq([k \in LineasDe(c) |->
                                      entrada[c].items[k].precio_unitario
                                          * entrada[c].items[k].cantidad])

\* A dict payload with a line on product 1 at unit price 7 was created and
\* its line is persisted at the product's price 10.
PrecioDadoPorFormaWitness ==
    \E c \in Workers :
        /\ resultado[c] = Ok
        /\ entrada[c].forma = "dict"
        /\ entrada[c].items = <<[producto_id |-> 1, cantidad |-> 1,
                                 precio_unitario |-> 7]>>
        /\ \E d \in FilasDe(c, 1) : d.precio_unitario = 10

\* ------------------------------------------------ admins of a reading
\* One MQTT message with readings on the existing products while the roles
\* of the users are changed.
LotesRoles == SeqHasta(Lecturas({1, 2}, {0, UmbralBajo, UmbralBajo + 1}), MaxLecturas) \ {<< >>}

RolesDados == {"user", "admin", "root"}

InitRoles == InitCon({1}, Productos0, UsuariosSensor)

NextRoles ==
    \/ manejar_mensaje(LotesRoles)
    \/ lectura_replace
    \/ lectura_notificar
    \/ \E u \in 1..4, rol \in RolesDados : actualizar_usuario(u, rol)

SpecRoles == InitRoles /\ [][NextRoles]_vars

\* The users of a usuarios table whose role is admin.
AdminsEn(tabla) == {u \in DOMAIN tabla : tabla[u].rol = "admin"}

\* The step that ends the turn of the current reading creates, when the
\* quantity read back asks for a message, exactly one unread notification
\* for every user in A and for nobody else, with the product, the message
\* and the level of the reading; and none when it asks for no message.
NotificaA(A) ==
    (sensor.pc = "get" /\ sensor' # sensor) =>
        LET p == sensor.lecturas[sensor.pos].producto_id
            q == productos[p].cantidad
            nuevas == notificaciones' \ notificaciones
        IN  /\ notificaciones \subseteq notificaciones'
            /\ IF q > UmbralBajo
               THEN nuevas = {}
               ELSE /\ {n.destinatario_id : n \in nuevas} = A
                    /\ Cardinality(nuevas) = Cardinality(A)
                    /\ \A n \in nuevas :
                          /\ n.producto_id = p
                          /\ n.leida = FALSE
                          /\ n.tipo = "inventario"
                          /\ n.nivel = IF q = 0 THEN "error" ELSE "warning"
                          /\ n.mensaje = IF q = 0 THEN "Stock agotado" ELSE "Stock bajo"

\* C26 as stated: a reading that generates a message yields exactly one
\* notification for every user who is admin when the reading is processed,
\* and none for anybody else.
NotificaAdminsDelMomento == [][NotificaA(AdminsEn(usuarios))]_vars

\* C26: a reading that generates a message yields exactly one notification
\* for every user who was admin when its batch started, with the product,
\* the message, the level and unread, and none for anybody else.
NotificaAdminsDelLote == [][NotificaA(AdminsEn(sensor.antes))]_vars

\* User 3, admin when the batch started and plain user since, has been
\* notified of a reading.
NotificaAdminsDelLoteWitness ==
    /\ sensor.pc = "done"
    /\ sensor.res = Ok
    /\ sensor.antes[3].rol = "admin"
    /\ usuarios[3].rol = "user"
    /\ \E n \in notificaciones : n.destinatario_id = 3 /\ n.nivel = "warning"

\* ------------------------------------------------ status changes of orders
\* Two orders of one unit of product 1 are created while the status of any
\* order id is changed to any status of the list or to one outside it.
EntradasCambio ==
    [forma : {"Pedido"}, usuario_id : {1}, estado : {"pendiente"},
     items : {<<[producto_id |-> 1, cantidad |-> 1, precio_unitario |-> None]>>}]

EstadosCambio == estados_validos \cup {"entregado"}

InitCambio == InitCon({1, 2}, Productos0, Usuarios0)

NextCambio ==
    \/ \E c \in Workers : crear_pedido(c, EntradasCambio)
    \/ \E c \in Workers : validar_usuario(c)
    \/ \E c \in Workers : validar_item(c)
    \/ \E c \in Workers : create_select(c)
    \/ \E c \in Workers : create_insert_pedido(c)
    \/ \E c \in Workers : create_insert_detalle(c)
    \/ \E c \in Workers : create_commit(c)
    \/ \E c \in Workers : crear_pedido_adjust_stock(c)
    \/ \E o \in 1..3, e \in EstadosCambio : cambiar_estado(o, e)

SpecCambio == InitCambio /\ [][NextCambio]_vars

\* C27: a successful status change changes the status of the order it
\* addresses and nothing else: the order's id, user and total, its lines,
\* every other order and the stock of every product stay as they were, also
\* when the new status is cancelado.
CambioSoloEstado ==
    [][(cambio' # cambio /\ cambio'.res = Ok) =>
          /\ productos' = productos
          /\ detalles' = detalles
          /\ usuarios' = usuarios
          /\ Cardinality(pedidos') = Cardinality(pedidos)
          /\ \A o \in pedidos :
                IF o.id = cambio'.pedido_id
                THEN [o EXCEPT !.estado = cambio'.nuevo_estado] \in pedidos'
                ELSE o \in pedidos']_vars

\* Order 1 has been cancelled while order 2 exists: order 2 is still
\* pendiente and the units of both orders are still off the stock.
CambioSoloEstadoWitness ==
    /\ cambio.res = Ok
    /\ cambio.pedido_id = 1
    /\ cambio.nuevo_estado = "cancelado"
    /\ Cardinality(cambio.antes) = 2
    /\ \E o \in pedidos : o.id = 1 /\ o.estado = "cancelado"
    /\ \E o \in pedidos : o.id = 2 /\ o.estado = "pendiente"
    /\ \A c \in Workers : pc[c] = "done"
    /\ productos[1].cantidad < Productos0[1].cantidad

\* C28: no order of transitions is enforced: a change of an existing order,
\* whatever its status, to any of the four statuses of the list, its own
\* status among them, succeeds and leaves the order in that status.
SinOrdenDeTransicion ==
    (cambio.nuevo_estado \in {"pendiente", "confirmado", "enviado", "cancelado"}
        /\ \E o \in cambio.antes : o.id = cambio.pedido_id) =>
        /\ cambio.res = Ok
        /\ \E o \in pedidos : o.id = cambio.pedido_id /\ o.estado = cambio.nuevo_estado

\* A cancelled order has been set back to pendiente.
SinOrdenDeTransicionWitness ==
    /\ cambio.res = Ok
    /\ cambio.nuevo_estado = "pendiente"
    /\ \E o \in cambio.antes : o.id = cambio.pedido_id /\ o.estado = "cancelado"
    /\ \E o \in pedidos : o.id = cambio.pedido_id /\ o.estado = "pendiente"

\* ------------------------------------------------ repeated low readings
\* The processed readings of the batch on product p that are at most the
\* threshold and are zero (nivel "error") or not (nivel "warning").
LecturasBajas(p, nivel) ==
    {k \in 1..Len(sensor.lecturas) :
        /\ Procesada(k)
        /\ sensor.lecturas[k].producto_id = p
        /\ sensor.lecturas[k].cantidad <= UmbralBajo
        /\ (sensor.lecturas[k].cantidad = 0) = (nivel = "error")}

\* Every product has, of each nivel, as many notifications as admins times
\* processed low readings of that nivel.
ConteoPorLectura ==
    \A p \in DOMAIN productos : \A nivel \in {"error", "warning"} :
        Cardinality({n \in notificaciones : n.producto_id = p /\ n.nivel = nivel})
            = Cardinality(AdminsEn(usuarios)) * Cardinality(LecturasBajas(p, nivel))

\* C29: low-stock notifications are level-triggered: every processed
\* reading of at most 10 on an existing product adds one notification per
\* admin, whatever the quantity was before, so k readings of the same low
\* value leave k notifications per admin, and notifications only grow.
NotificaCadaLectura ==
    [][notificaciones \subseteq notificaciones' /\ ConteoPorLectura']_vars

\* Two readings of 10 on product 1 in a row: the second found the quantity
\* at 10 already, and both admins hold two warnings for the product.
NotificaCadaLecturaWitness ==
    /\ sensor.pc = "done"
    /\ sensor.res = Ok
    /\ sensor.lecturas = <<[producto_id |-> 1, cantidad |-> 10],
                           [producto_id |-> 1, cantidad |-> 10]>>
    /\ sensor.rs.previa[1].cantidad = 10
    /\ \A a \in AdminsEn(usuarios) :
          Cardinality({n \in notificaciones :
              n.destinatario_id = a /\ n.producto_id = 1 /\ n.nivel = "warning"}) = 2

====
